---------------------------- MODULE Spec2Model ----------------------------
(***************************************************************************)
(* State-machine model of the two tree-search engines of the repository:   *)
(* NaiveMCTS (src/NaiveMCTS.py, src/NaiveNode.py) and SarsaMCTS            *)
(* (src/agents/SarsaMCTS.py, src/SarsaNode.py), playing on the             *)
(* TicTacToeBoard game (src/games/tictactoe/TicTacToe.py).                 *)
(*                                                                         *)
(* Python objects live in a heap: `nodes` is the sequence of all tree      *)
(* nodes ever constructed and a node reference is an index into it.  The   *)
(* live game object handed to the agent is the variable `board`; a node    *)
(* whose game_obj is that very object holds the reference LiveGame, so     *)
(* that it sees every later real move, as the aliasing in the code does.   *)
(***************************************************************************)
EXTENDS Integers, Sequences, FiniteSets, TLC

VARIABLES
    engine,          \* "Naive" | "Sarsa": which agent class was constructed
    mark,            \* self.mark          (MCTSAgent.__init__)
    opponent_mark,   \* self.opponent_mark (MCTSAgent.__init__)
    board,           \* the live game object's board (self.game_obj.board)
    nodes,           \* heap of node objects
    memory,          \* self.memory: canonical key -> node reference
    root,            \* self.root: node reference
    path,            \* NaiveMCTS.path: sequence of node references
    episode,         \* SarsaMCTS.episode: sequence of (s, a, r, sp)
    worst_return,    \* SarsaMCTS.worst_return
    best_return,     \* SarsaMCTS.best_return
    ret,             \* outcome of the last public call (step / make_move)
    n_steps,         \* number of step() calls performed so far
    n_moves,         \* number of real moves applied by the driver so far
    running          \* the step() call in progress, under SpecRun: where it
                     \* stands and its local variables

agent_vars == <<nodes, memory, root, path, episode, worst_return, best_return>>
config_vars == <<engine, mark, opponent_mark>>
vars == <<engine, mark, opponent_mark, board, nodes, memory, root, path,
          episode, worst_return, best_return, ret, n_steps, n_moves, running>>

-----------------------------------------------------------------------------
(* Bounds of the model.                                                    *)

MaxSteps == 2

MaxMoves == 2

\* The number of direct expansion_() calls made under SpecExpansion.
MaxExpansions == 2

\* The step() calls of SarsaMCTS in the search specification.
MaxSearchSteps == 3

-----------------------------------------------------------------------------
(* The game: src/games/tictactoe/TicTacToe.py                              *)

X_MARK_INDICATOR == 1

O_MARK_INDICATOR == 0

NO_MARK_INDICATOR == -1

GRID_ROWS == 3

GRID_COLS == 3

\* is_terminal_state returns None as the winner of a non-terminal board.
NoneWinner == -2

Rows == 0 .. (GRID_ROWS - 1)
Cols == 0 .. (GRID_COLS - 1)

\* A board is the row-major sequence of the numpy array's cells.
Cell(row, col) == row * GRID_COLS + col + 1

At(b, row, col) == b[Cell(row, col)]

\* TicTacToeBoard.mark_to_indicator: every mark other than 'X' is an O.
mark_to_indicator(m) == IF m = "X" THEN X_MARK_INDICATOR ELSE O_MARK_INDICATOR

\* TicTacToeBoard.indicator_to_mark
indicator_to_mark(i) ==
    IF i = X_MARK_INDICATOR THEN "X"
    ELSE IF i = O_MARK_INDICATOR THEN "O" ELSE "_"

\* TicTacToeBoard.get_init_game_state
get_init_game_state == [i \in 1 .. (GRID_ROWS * GRID_COLS) |-> NO_MARK_INDICATOR]

\* TicTacToeBoard.is_move_valid_
is_move_valid_(b, row, col) == At(b, row, col) = NO_MARK_INDICATOR

\* TicTacToeBoard.get_all_next_actions: np.where enumerates row-major.
RECURSIVE ActionsFrom(_, _)
ActionsFrom(b, i) ==
    IF i > GRID_ROWS * GRID_COLS THEN <<>>
    ELSE LET rest == ActionsFrom(b, i + 1)
             a == <<(i - 1) \div GRID_COLS, (i - 1) % GRID_COLS>>
         IN IF b[i] = NO_MARK_INDICATOR THEN <<a>> \o rest ELSE rest

get_all_next_actions(b) == ActionsFrom(b, 1)

\* TicTacToeBoard.get_next_game_state: a copy of the board with the cell
\* overwritten by mark_to_indicator(mark).
get_next_game_state(b, a, m) ==
    [b EXCEPT ![Cell(a[1], a[2])] = mark_to_indicator(m)]

\* TicTacToeBoard.get_next_game_states
get_next_game_states(b, m) ==
    LET input_actions == get_all_next_actions(b)
    IN [pos_next_states |-> [i \in 1 .. Len(input_actions) |->
                                get_next_game_state(b, input_actions[i], m)],
        input_actions |-> input_actions]

\* The eight lines in the order is_terminal_state examines them: rows,
\* columns, the top-left diagonal, the bottom-left diagonal.
Lines ==
    [i \in 1 .. GRID_ROWS |-> [j \in 1 .. GRID_COLS |-> Cell(i - 1, j - 1)]]
    \o [i \in 1 .. GRID_COLS |-> [j \in 1 .. GRID_ROWS |-> Cell(j - 1, i - 1)]]
    \o << [j \in 1 .. GRID_ROWS |-> Cell(j - 1, j - 1)],
          [j \in 1 .. GRID_ROWS |-> Cell(j - 1, GRID_COLS - j)] >>

\* np.unique of a line has length 1 and does not contain NO_MARK_INDICATOR.
LineDecided(b, line) ==
    /\ \A j \in 1 .. Len(line) : b[line[j]] = b[line[1]]
    /\ b[line[1]] # NO_MARK_INDICATOR

\* TicTacToeBoard.is_terminal_state: the first decided line names the
\* winner; a full board without one is a draw (winner -1).
is_terminal_state(b) ==
    LET decided == {k \in 1 .. Len(Lines) : LineDecided(b, Lines[k])}
    IN IF decided # {}
       THEN LET k == CHOOSE x \in decided : \A y \in decided : x <= y
            IN [is_terminal |-> TRUE, winner |-> b[Lines[k][1]]]
       ELSE IF \A i \in 1 .. Len(b) : b[i] # NO_MARK_INDICATOR
            THEN [is_terminal |-> TRUE, winner |-> NO_MARK_INDICATOR]
            ELSE [is_terminal |-> FALSE, winner |-> NoneWinner]

\* Mutant of mark_move: the cell is left as it was.
mark_move_nowhere(b, m, row, col) == b

\* TicTacToeBoard.mark_move on a valid cell.
mark_move(b, m, row, col) ==
    [b EXCEPT ![Cell(row, col)] = mark_to_indicator(m)]

\* Python's ==  between the winner is_terminal_state returns (a numpy
\* integer) and a mark.  Marks are modelled as strings: "X", "O", "_" are
\* Python strings and "1", "0" are the Python integers 1 and 0.  An integer
\* never equals a string.
WinnerEqualsMark(winner, m) ==
    \/ (m = "1" /\ winner = 1)
    \/ (m = "0" /\ winner = 0)

\* TicTacToeBoard.get_reward(game_obj, player)
get_reward(b, player_mark) ==
    LET t == is_terminal_state(b)
    IN IF ~t.is_terminal THEN 0
       ELSE IF WinnerEqualsMark(t.winner, player_mark) THEN 1
       ELSE IF WinnerEqualsMark(t.winner, indicator_to_mark(NO_MARK_INDICATOR))
            THEN 0
       ELSE -1

\* np.array2string(board): the cells printed as integers.
IntToText(i) == IF i = -1 THEN "-1" ELSE IF i = 0 THEN "0" ELSE "1"

array2string(b) == [i \in 1 .. Len(b) |-> IntToText(b[i])]

\* TicTacToeBoard.__str__: the cells printed as X, O and _.
BoardStr(b) == [i \in 1 .. Len(b) |-> indicator_to_mark(b[i])]

-----------------------------------------------------------------------------
(* Object references and Python values.                                    *)

\* None, as an action or a returned value.
None == <<>>

\* A node's game_obj is the live game object itself (the agent's
\* self.game_obj), a game object of its own, or (the constructor's root
\* only) the bare array get_init_game_state returns.
LiveGame == [ref |-> "live", board |-> <<>>]

OwnGame(b) == [ref |-> "own", board |-> b]

ArrayState(b) == [ref |-> "array", board |-> b]

NoGame == [ref |-> "none", board |-> <<>>]

\* The board a game object reference holds when the live game holds `live`.
GameBoard(g, live) == IF g.ref = "live" THEN live ELSE g.board

\* Rationals num/den with den > 0, kept in lowest terms.
RECURSIVE GCD(_, _)
\* A value that later operators use more than once is bound through a
\* one-element set, so that it is computed once.
GCD(a, b) ==
    IF b = 0 THEN a
    ELSE CHOOSE g \in {GCD(x, y) : x \in {b}, y \in {a % b}} : TRUE

Abs(x) == IF x < 0 THEN -x ELSE x

Rat(n, d) ==
    IF n = 0 THEN [num |-> 0, den |-> 1]
    ELSE CHOOSE r \in {[num |-> s * (x \div g), den |-> s * (y \div g)] :
                          x \in {n}, y \in {d},
                          g \in {GCD(Abs(n), Abs(d))},
                          s \in {IF d < 0 THEN -1 ELSE 1}} : TRUE

RatInt(n) == [num |-> n, den |-> 1]

\* Sums are taken over the least common denominator and products after
\* cancelling across, so that intermediate numbers stay small.
RatAdd(p, q) ==
    CHOOSE r \in {Rat(x.num * (y.den \div g) + y.num * (x.den \div g),
                      (x.den \div g) * y.den) :
                     x \in {p}, y \in {q}, g \in {GCD(p.den, q.den)}} : TRUE

RatSub(p, q) == RatAdd(p, [num |-> -q.num, den |-> q.den])

RatMul(p, q) ==
    CHOOSE r \in {Rat((x.num \div g1) * (y.num \div g2),
                      (x.den \div g2) * (y.den \div g1)) :
                     x \in {p}, y \in {q},
                     g1 \in {GCD(Abs(p.num), q.den)},
                     g2 \in {GCD(Abs(q.num), p.den)}} : TRUE

\* a/b <= c/d for b, d > 0, by comparing the integer parts and then the
\* reciprocals of the fractional parts: the comparison multiplies nothing.
RECURSIVE FracLeq(_, _, _, _)
FracLeq(a, b, c, d) ==
    \E qa \in {a \div b}, qc \in {c \div d}, ra \in {a % b}, rc \in {c % d} :
        IF qa # qc THEN qa < qc
        ELSE IF ra = 0 THEN TRUE
        ELSE IF rc = 0 THEN FALSE
        ELSE \E b1 \in {b}, d1 \in {d} : FracLeq(d1, rc, b1, ra)

RatLeq(p, q) == \E x \in {p}, y \in {q} : FracLeq(x.num, x.den, y.num, y.den)

RatGeq(p, q) == RatLeq(q, p)

-----------------------------------------------------------------------------
(* Tree nodes: src/agents/MCTSNode.py, src/NaiveNode.py, src/SarsaNode.py  *)

\* NaiveNode.__init__ (with MCTSNode.__init__).  n_won is counted in half
\* wins, so that the 0.5 a draw adds is the integer 1 and a win is 2.
NaiveNode(game_state, input_action, is_opponent) ==
    [game_obj |-> game_state,
     input_action |-> input_action,
     is_opponent_turn |-> is_opponent,
     n_won |-> 0,
     n_visited |-> 1,
     children_states |-> <<>>,
     V |-> RatInt(0)]

\* One full win and the half win of a draw, in the unit of n_won.
FullWin == 2

HalfWin == 1

\* NaiveNode.is_leaf / SarsaNode.is_leaf
is_leaf(node) == Len(node.children_states) = 0

\* The permutations of 1..n: the orders in which a set of n objects hashed
\* by identity can be iterated.
RECURSIVE PermutationsOf(_)
PermutationsOf(S) ==
    IF S = {} THEN {<<>>}
    ELSE UNION {{<<x>> \o p : p \in PermutationsOf(S \ {x})} : x \in S}

IterationOrders(n) == PermutationsOf(1 .. n)

\* Mutant of NaiveAddChild: the child inherits the parent's turn owner.
NaiveAddChildSameOwner(ns, parent, game_obj, input_action) ==
    LET new_child == NaiveNode(game_obj, input_action,
                               ns[parent].is_opponent_turn)
        ns1 == Append(ns, new_child)
    IN [ns1 EXCEPT ![parent].children_states = Append(@, Len(ns1))]

\* NaiveNode.add_child: always constructs a node and adds it to the set.
\* Returns the heap with the new node appended; the parent's set gains the
\* new reference (its iteration order is settled by add_children).
NaiveAddChild(ns, parent, game_obj, input_action) ==
    CHOOSE r \in
      {[ns1 EXCEPT ![parent].children_states = Append(@, Len(ns1))] :
          ns1 \in {Append(ns0, NaiveNode(game_obj, input_action,
                                         ~ns0[parent].is_opponent_turn)) :
                      ns0 \in {ns}}} : TRUE

RECURSIVE NaiveAddChildrenFrom(_, _, _, _, _)
NaiveAddChildrenFrom(ns, parent, game_objs, input_actions, idx) ==
    IF idx > Len(game_objs) THEN ns
    ELSE CHOOSE r \in
           {NaiveAddChildrenFrom(ns1, parent, game_objs, input_actions, idx + 1) :
               ns1 \in {NaiveAddChild(ns, parent, OwnGame(game_objs[idx]),
                                      input_actions[idx])}} : TRUE

\* NaiveNode.add_children, followed by the iteration order `order` (a
\* permutation) that the set children_states has afterwards.
NaiveAddChildren(ns, parent, game_objs, input_actions, order) ==
    CHOOSE r \in
      {[ns1 EXCEPT ![parent].children_states =
                      [i \in 1 .. Len(@) |-> @[order[i]]]] :
          ns1 \in {NaiveAddChildrenFrom(ns, parent, game_objs, input_actions, 1)}} :
      TRUE

\* NaiveNode.update_stats
WIN == "WIN"
LOSS == "LOSS"
DRAW == "DRAW"

\* Mutant of update_stats: the visit is not counted.
update_stats_without_visit(node, outcome) ==
    LET won == IF outcome = WIN
               THEN (IF ~node.is_opponent_turn THEN node.n_won + FullWin ELSE node.n_won)
               ELSE IF outcome = LOSS
               THEN (IF node.is_opponent_turn THEN node.n_won + FullWin ELSE node.n_won)
               ELSE node.n_won + HalfWin
    IN [node EXCEPT !.n_won = won]

\* Mutant of update_stats: a decisive outcome is credited to the node
\* whatever its owner.
update_stats_any_owner(node, outcome) ==
    LET won == IF outcome = WIN \/ outcome = LOSS
               THEN node.n_won + FullWin
               ELSE node.n_won + HalfWin
    IN [node EXCEPT !.n_won = won, !.n_visited = node.n_visited + 1]

update_stats(node, outcome) ==
    LET won == IF outcome = WIN
               THEN (IF ~node.is_opponent_turn THEN node.n_won + FullWin ELSE node.n_won)
               ELSE IF outcome = LOSS
               THEN (IF node.is_opponent_turn THEN node.n_won + FullWin ELSE node.n_won)
               ELSE node.n_won + HalfWin
    IN [node EXCEPT !.n_won = won, !.n_visited = node.n_visited + 1]

\* NaiveNode.get_value: n_won / n_visited, as a rational.
get_value(node) == Rat(node.n_won, 2 * node.n_visited)

\* self.memory.get(key, None), with 0 for None.
MemoryGet(mem, key) == IF key \in DOMAIN mem THEN mem[key] ELSE 0

\* self.memory[key] = node
MemorySet(mem, key, node) == (key :> node) @@ mem

\* A game object used as a dictionary key: it hashes by identity and equals
\* none of the strings the memory is keyed by.
ObjectKey(g) == <<"<TicTacToeBoard object>">>

-----------------------------------------------------------------------------
(* Outcomes of the public calls.                                           *)

Returned(op, action) == [op |-> op, kind |-> "return", action |-> action, exc |-> ""]

Raised(op, exc) == [op |-> op, kind |-> "raise", action |-> None, exc |-> exc]

NoCall == [op |-> "", kind |-> "", action |-> None, exc |-> ""]

-----------------------------------------------------------------------------
(* NaiveMCTS: src/NaiveMCTS.py                                             *)

\* exploration_constant=1, the default of NaiveMCTS.__init__ and
\* SarsaMCTS.__init__.
exploration_constant == 1

\* Fixed-point unit of the UCB1 scores: a score x is held as the integer
\* nearest below x * SCALE.
SCALE == 100 * 100

\* np.log(n) * SCALE for n = 1 .. 16.
LogTable == <<0, 6931, 10986, 13863, 16094, 17918, 19459, 20794,
              21972, 23026, 23979, 24849, 25649, 26391, 27081, 27726>>

log(n) == LogTable[n]

\* np.sqrt of v / SCALE^2, times SCALE: the integer square root of v.
RECURSIVE SqrtBetween(_, _, _)
SqrtBetween(v, lo, hi) ==
    IF lo >= hi THEN lo
    ELSE LET mid == (lo + hi + 1) \div 2
         IN IF mid * mid <= v THEN SqrtBetween(v, mid, hi)
            ELSE SqrtBetween(v, lo, mid - 1)

sqrt(v) == SqrtBetween(v, 0, 4 * SCALE)

\* The UCB1 score perform_lookahead gives `child` under `parent`.
NaiveUcb(parent, child) ==
    LET ratio == (child.n_won * SCALE) \div (2 * child.n_visited)
        exploitation_value == IF ~child.is_opponent_turn THEN ratio
                              ELSE SCALE - ratio
        exploration_bonus == exploration_constant
                             * sqrt((log(parent.n_visited) * SCALE) \div child.n_visited)
    IN exploitation_value + exploration_bonus

\* The scan of perform_lookahead over root.children_states in iteration
\* order; most_promising_node = 0 stands for None.
RECURSIVE LookaheadScan(_, _, _, _, _)
LookaheadScan(ns, parent, i, best_value, most_promising_node) ==
    IF i > Len(ns[parent].children_states) THEN most_promising_node
    ELSE LET child == ns[parent].children_states[i]
             value == NaiveUcb(ns[parent], ns[child])
         IN IF value >= best_value
            THEN LookaheadScan(ns, parent, i + 1, value, child)
            ELSE LookaheadScan(ns, parent, i + 1, best_value, most_promising_node)

\* Mutant of perform_lookahead: the path of the step before is not flushed,
\* the lookahead from a memorized root appends to it.
RECURSIVE perform_lookahead_unflushed(_, _)
perform_lookahead_unflushed(ns, n) ==
    IF n = 0 THEN <<0>>
    ELSE (IF n = MemoryGet(memory, array2string(board)) THEN path ELSE <<>>)
         \o (IF is_leaf(ns[n]) THEN <<n>>
             ELSE <<n>> \o perform_lookahead_unflushed(
                               ns, LookaheadScan(ns, n, 1, 0, 0)))

\* NaiveMCTS.perform_lookahead: the nodes it appends to self.path.
RECURSIVE perform_lookahead(_, _)
perform_lookahead(ns, n) ==
    IF n = 0 THEN <<0>>
    ELSE IF is_leaf(ns[n]) THEN <<n>>
    ELSE <<n>> \o perform_lookahead(ns, LookaheadScan(ns, n, 1, 0, 0))

\* NaiveMCTS.create_children_for_node: the next states are those of the
\* real game (self.game_obj) marked with self.mark.
create_children_for_node(ns, node, live, m, order) ==
    LET next == get_next_game_states(live, m)
    IN NaiveAddChildren(ns, node, next.pos_next_states, next.input_actions, order)

\* RandomTTTPolicy.select_action: any of the open cells.
select_action(b) == {a \in Rows \X Cols : is_move_valid_(b, a[1], a[2])}

\* NaiveMCTS.perform_playout: the winners is_terminal_state can report at
\* the end of a playout from board b.
RECURSIVE PlayoutWinners(_, _, _, _)
PlayoutWinners(b, is_opponent_turn, m, om) ==
    IF is_terminal_state(b).is_terminal THEN {is_terminal_state(b).winner}
    ELSE UNION {PlayoutWinners(
                    mark_move(b, IF is_opponent_turn THEN om ELSE m, a[1], a[2]),
                    ~is_opponent_turn, m, om) : a \in select_action(b)}

OutcomeOf(winner, m, om) ==
    IF WinnerEqualsMark(winner, m) THEN WIN
    ELSE IF WinnerEqualsMark(winner, om) THEN LOSS
    ELSE DRAW

perform_playout(playout_node, live, m, om) ==
    {OutcomeOf(w, m, om) :
        w \in PlayoutWinners(GameBoard(playout_node.game_obj, live),
                             playout_node.is_opponent_turn, m, om)}

\* Mutant of backpropagate_outcome: the last node of the path (the playout
\* node) is left out.
RECURSIVE backpropagate_outcome_short(_, _, _, _)
backpropagate_outcome_short(ns, p, i, outcome) ==
    IF i >= Len(p) THEN ns
    ELSE backpropagate_outcome_short([ns EXCEPT ![p[i]] = update_stats(@, outcome)],
                                     p, i + 1, outcome)

\* Mutant of backpropagate_outcome: the first node of the path (the root)
\* is left out.
RECURSIVE backpropagate_outcome_below_root(_, _, _, _)
backpropagate_outcome_below_root(ns, p, i, outcome) ==
    IF i > Len(p) THEN ns
    ELSE backpropagate_outcome_below_root(
             IF i = 1 THEN ns ELSE [ns EXCEPT ![p[i]] = update_stats(@, outcome)],
             p, i + 1, outcome)

\* NaiveMCTS.backpropagate_outcome
RECURSIVE backpropagate_outcome(_, _, _, _)
backpropagate_outcome(ns, p, i, outcome) ==
    IF i > Len(p) THEN ns
    ELSE backpropagate_outcome([ns EXCEPT ![p[i]] = update_stats(@, outcome)],
                               p, i + 1, outcome)

\* Mutant of NaivePreStepSetup: the lookup is forgotten and a root is
\* constructed and stored on every call.
NaivePreStepSetupAlwaysFresh ==
    LET key == array2string(board)
        ns == Append(nodes, NaiveNode(LiveGame, None, TRUE))
    IN [nodes |-> ns, memory |-> MemorySet(memory, key, Len(ns)), root |-> Len(ns)]

\* NaiveMCTS.pre_step_setup_: the heap, memory and root it leaves.
NaivePreStepSetup ==
    LET key == array2string(board)
    IN IF MemoryGet(memory, key) # 0
       THEN [nodes |-> nodes, memory |-> memory, root |-> MemoryGet(memory, key)]
       ELSE LET ns == Append(nodes, NaiveNode(LiveGame, None, TRUE))
            IN [nodes |-> ns, memory |-> MemorySet(memory, key, Len(ns)),
                root |-> Len(ns)]

\* Mutant of NaiveGameDecided: the edge case is never taken.
NaiveGameNeverDecided(live) == FALSE

\* The edge case NaiveMCTS.step returns on: the real game is decided.
NaiveGameDecided(live) == is_terminal_state(live).is_terminal

\* NaiveMCTS.step (with selection_, expansion_, simulation_ and
\* backpropagation_)
\* Mutant of NaiveStep: selection_ expands the leaf without asking whether
\* its state is terminal.
NaiveStepWithoutShortCircuit ==
    /\ engine = "Naive"
    /\ n_steps < MaxSteps
    /\ n_steps' = n_steps + 1
    /\ UNCHANGED <<config_vars, running, board, episode, worst_return,
                   best_return, n_moves>>
    /\ IF NaiveGameDecided(board)
       THEN /\ ret' = Returned("step", None)
            /\ UNCHANGED <<nodes, memory, root, path>>
       ELSE LET pre == NaivePreStepSetup
                lookahead == perform_lookahead(pre.nodes, pre.root)
                leaf_node == lookahead[Len(lookahead)]
            IN /\ memory' = pre.memory
               /\ root' = pre.root
               /\ IF leaf_node = 0
                  THEN /\ ret' = Raised("step", "AttributeError")
                       /\ nodes' = pre.nodes
                       /\ path' = lookahead
                  ELSE \E order \in IterationOrders(Len(get_all_next_actions(board))) :
                         LET expanded == create_children_for_node(
                                             pre.nodes, leaf_node, board, mark, order)
                         IN \E k \in 1 .. Len(expanded[leaf_node].children_states) :
                              LET playout_node == expanded[leaf_node].children_states[k]
                                  full_path == Append(lookahead, playout_node)
                              IN \E outcome \in perform_playout(
                                        expanded[playout_node], board, mark, opponent_mark) :
                                   /\ ret' = Returned("step", None)
                                   /\ path' = full_path
                                   /\ nodes' = backpropagate_outcome(
                                                   expanded, full_path, 1, outcome)

NaiveStep ==
    /\ engine = "Naive"
    /\ n_steps < MaxSteps
    /\ n_steps' = n_steps + 1
    /\ UNCHANGED <<config_vars, running, board, episode, worst_return,
                   best_return, n_moves>>
    /\ IF NaiveGameDecided(board)
       THEN /\ ret' = Returned("step", None)
            /\ UNCHANGED <<nodes, memory, root, path>>
       ELSE LET pre == NaivePreStepSetup
                lookahead == perform_lookahead(pre.nodes, pre.root)
                leaf_node == lookahead[Len(lookahead)]
            IN /\ memory' = pre.memory
               /\ root' = pre.root
               /\ IF leaf_node = 0
                  \* perform_lookahead(None) appends None and fails on
                  \* None.is_leaf()
                  THEN /\ ret' = Raised("step", "AttributeError")
                       /\ nodes' = pre.nodes
                       /\ path' = lookahead
                  ELSE IF is_terminal_state(
                              GameBoard(pre.nodes[leaf_node].game_obj, board)).is_terminal
                  THEN /\ ret' = Returned("step", None)
                       /\ nodes' = pre.nodes
                       /\ path' = lookahead
                  ELSE \E order \in IterationOrders(Len(get_all_next_actions(board))) :
                         LET expanded == create_children_for_node(
                                             pre.nodes, leaf_node, board, mark, order)
                         IN \E k \in 1 .. Len(expanded[leaf_node].children_states) :
                              LET playout_node == expanded[leaf_node].children_states[k]
                                  full_path == Append(lookahead, playout_node)
                              IN \E outcome \in perform_playout(
                                        expanded[playout_node], board, mark, opponent_mark) :
                                   /\ ret' = Returned("step", None)
                                   /\ path' = full_path
                                   /\ nodes' = backpropagate_outcome(
                                                   expanded, full_path, 1, outcome)

\* Mutant of NaiveBestChild: a child replaces the best only when strictly
\* better, starting below every value.
RECURSIVE NaiveBestChildStrict(_, _, _, _, _)
NaiveBestChildStrict(ns, parent, i, max_value, best_child) ==
    IF i > Len(ns[parent].children_states) THEN best_child
    ELSE LET child == ns[parent].children_states[i]
         IN IF best_child = 0 \/ (~RatGeq(max_value, get_value(ns[child])))
            THEN NaiveBestChildStrict(ns, parent, i + 1, get_value(ns[child]), child)
            ELSE NaiveBestChildStrict(ns, parent, i + 1, max_value, best_child)

\* NaiveMCTS.make_move: the scan over self.root.children_states.
RECURSIVE NaiveBestChild(_, _, _, _, _)
NaiveBestChild(ns, parent, i, max_value, best_child) ==
    IF i > Len(ns[parent].children_states) THEN best_child
    ELSE LET child == ns[parent].children_states[i]
         IN IF RatGeq(get_value(ns[child]), max_value)
            THEN NaiveBestChild(ns, parent, i + 1, get_value(ns[child]), child)
            ELSE NaiveBestChild(ns, parent, i + 1, max_value, best_child)

\* Mutant of NaiveMakeMoveResult: without a best child, None is returned.
NaiveMakeMoveResultDefault(ns, r) ==
    LET best_child == NaiveBestChild(ns, r, 1, RatInt(0), 0)
    IN IF best_child = 0 THEN Returned("make_move", None)
       ELSE Returned("make_move", ns[best_child].input_action)

NaiveMakeMoveResult(ns, r) ==
    LET best_child == NaiveBestChild(ns, r, 1, RatInt(0), 0)
    IN IF best_child = 0 THEN Raised("make_move", "AttributeError")
       ELSE Returned("make_move", ns[best_child].input_action)

\* Mutant of NaiveMakeMove: the chosen child becomes the root.
NaiveMakeMoveAdvancesRoot ==
    /\ engine = "Naive"
    /\ ret' = NaiveMakeMoveResult(nodes, root)
    /\ root' = LET best_child == NaiveBestChild(nodes, root, 1, RatInt(0), 0)
               IN IF best_child = 0 THEN root ELSE best_child
    /\ UNCHANGED <<config_vars, running, board, nodes, memory, path, episode,
                   worst_return, best_return, n_steps, n_moves>>

\* NaiveMCTS.make_move
NaiveMakeMove ==
    /\ engine = "Naive"
    /\ ret' = NaiveMakeMoveResult(nodes, root)
    /\ UNCHANGED <<config_vars, running, board, agent_vars, n_steps, n_moves>>

-----------------------------------------------------------------------------
(* SarsaMCTS: src/agents/SarsaMCTS.py                                      *)

\* SarsaNode.__init__ as SarsaMCTS calls it:
\* SarsaNode(game_obj, v_init=..., input_action=..., is_opponent=...).
SarsaNode(game_state, v_init, input_action, is_opponent) ==
    [game_obj |-> game_state,
     input_action |-> input_action,
     is_opponent_turn |-> is_opponent,
     n_won |-> 0,
     n_visited |-> 1,
     children_states |-> <<>>,
     V |-> v_init]

\* SarsaNode.add_child as SarsaMCTS calls it: add_child(sp, init_v, a).
\* children_states is a dict keyed by the action; its iteration order is
\* the insertion order.
SarsaAddChild(ns, parent, game_obj, v_init, input_action) ==
    LET new_child == SarsaNode(game_obj, v_init, input_action,
                               ~ns[parent].is_opponent_turn)
        ns1 == Append(ns, new_child)
    IN [ns1 EXCEPT ![parent].children_states = Append(@, Len(ns1))]

\* parent_node.children_states.keys()
ChildKeys(ns, parent) ==
    {ns[ns[parent].children_states[i]].input_action :
        i \in 1 .. Len(ns[parent].children_states)}

\* parent_node.children_states[a]
ChildAt(ns, parent, a) ==
    LET i == CHOOSE j \in 1 .. Len(ns[parent].children_states) :
                 ns[ns[parent].children_states[j]].input_action = a
    IN ns[parent].children_states[i]

\* Hyperparameters: the defaults of SarsaMCTS.__init__.
gamma == Rat(9, 10)

trace_decay == Rat(1, 2)

\* self.V_init and self.V_playout: lambda _ : 0
V_init == RatInt(0)

V_playout == RatInt(0)

\* The initial worst_return 1e9 and best_return -1e9.
BigReturn == 1000000000

\* worst_return is held as val - eps * 1e-9 with eps in {0, 1}: the term
\* 1e-9 backup_td_errors_ subtracts is below the distance of any two
\* distinct values the model computes.
InitWorstReturn == [val |-> RatInt(BigReturn), eps |-> 0]

InitBestReturn == RatInt(-BigReturn)

\* Mutant of LeqWorst: the comparison is turned round.
GeqWorst(v, worst) == RatGeq(v, worst.val)

\* node.V <= self.worst_return
LeqWorst(v, worst) ==
    IF worst.eps = 0 THEN RatLeq(v, worst.val)
    ELSE RatLeq(v, worst.val) /\ v # worst.val

Transition(s, a, r, sp) == [s |-> s, a |-> a, r |-> r, sp |-> sp]

\* SarsaMCTS.generate_episode_: every episode the playout policy's random
\* choices can produce, as [episode, raised].  `ep` is self.episode so far.
RECURSIVE generate_episode_(_, _, _, _, _, _, _)
generate_episode_(s, is_opponent_turn, ep, mem, live, m, om) ==
    LET sb == GameBoard(s, live)
    IN IF is_terminal_state(sb).is_terminal
       THEN {[episode |-> ep, raised |-> ""]}
       ELSE IF MemoryGet(mem, ObjectKey(s)) # 0
       \* ucb1_tree_policy_(s) reads s.game_obj, which a game object lacks
       THEN {[episode |-> ep, raised |-> "AttributeError"]}
       ELSE UNION {
           LET sp == OwnGame(get_next_game_state(
                                 sb, a, IF is_opponent_turn THEN m ELSE om))
               r == get_reward(sp.board, m)
               ep1 == IF Len(ep) = 0
                      THEN <<Transition(NoGame, None, 0, s)>> ELSE ep
           IN generate_episode_(sp, ~is_opponent_turn,
                                Append(ep1, Transition(s, a, r, sp)),
                                mem, live, m, om)
           : a \in select_action(sb)}

\* SarsaMCTS.expand_tree_ from transition i of self.episode on, as
\* [nodes, memory, raised].
RECURSIVE expand_tree_(_, _, _, _, _)
expand_tree_(ns, mem, ep, i, live) ==
    IF i > Len(ep) THEN [nodes |-> ns, memory |-> mem, raised |-> ""]
    ELSE LET t == ep[i]
             parent_node == MemoryGet(mem, BoardStr(GameBoard(t.s, live)))
         IN IF parent_node = 0
            THEN [nodes |-> ns, memory |-> mem, raised |-> "AssertionError"]
            ELSE LET ns1 == IF t.a \notin ChildKeys(ns, parent_node)
                            THEN SarsaAddChild(ns, parent_node, t.sp, V_init, t.a)
                            ELSE ns
                     key == BoardStr(GameBoard(t.sp, live))
                 IN IF MemoryGet(mem, key) = 0
                    THEN [nodes |-> ns1,
                          memory |-> MemorySet(mem, key, ChildAt(ns1, parent_node, t.a)),
                          raised |-> ""]
                    ELSE expand_tree_(ns1, mem, ep, i + 1, live)

\* Mutant of alpha: the step size is taken from the visit count as it was
\* before the increment.
alpha_before_increment(n) == Rat(1, n - 1)

\* alpha = 1 / n, n being the visit count just incremented.
alpha(n) == Rat(1, n)

\* SarsaMCTS.backup_td_errors_ from transition i of self.episode down to
\* the first, as [nodes, best_return, worst_return].
RECURSIVE backup_td_errors_(_, _, _, _, _, _, _, _, _)
backup_td_errors_(ns, mem, ep, i, td_cum, v_next, best, worst, live) ==
    IF i < 1 THEN [nodes |-> ns, best_return |-> best, worst_return |-> worst]
    ELSE LET t == ep[i]
             stringified_game_state == BoardStr(GameBoard(t.sp, live))
             node == MemoryGet(mem, stringified_game_state)
             Update(v_current, td_cum1) ==
                 IF node # 0
                 THEN CHOOSE res \in
                        {backup_td_errors_(
                             [ns EXCEPT ![node].n_visited = n, ![node].V = v],
                             mem, ep, i - 1, td_cum1, v_current,
                             IF RatGeq(v, best) THEN v ELSE best,
                             IF LeqWorst(v, worst)
                             THEN [val |-> v, eps |-> 1] ELSE worst,
                             live) :
                           n \in {ns[node].n_visited + 1},
                           v \in {RatAdd(ns[node].V,
                                         RatMul(alpha(ns[node].n_visited + 1),
                                                td_cum1))}} : TRUE
                 ELSE backup_td_errors_(ns, mem, ep, i - 1, td_cum1, v_current,
                                        best, worst, live)
         IN CHOOSE res \in
              {CHOOSE res1 \in
                 {Update(v_current, td_cum1) :
                    td_cum1 \in {RatAdd(RatMul(RatMul(trace_decay, gamma), td_cum),
                                        RatSub(RatAdd(RatInt(t.r),
                                                      RatMul(gamma, v_next)),
                                               v_current))}} : TRUE :
                 v_current \in {IF node # 0 THEN ns[node].V ELSE V_playout}} : TRUE

\* Mutant of SarsaPreStepSetup: a fresh root is marked as the agent's.
SarsaPreStepSetupOwnRoot ==
    LET key == BoardStr(board)
    IN IF MemoryGet(memory, key) # 0
       THEN [nodes |-> nodes, memory |-> memory, root |-> MemoryGet(memory, key)]
       ELSE LET ns == Append(nodes, SarsaNode(LiveGame, RatInt(0), None, FALSE))
            IN [nodes |-> ns, memory |-> MemorySet(memory, key, Len(ns)),
                root |-> Len(ns)]

\* Mutant of SarsaPreStepSetup: a fresh root is not entered into memory.
SarsaPreStepSetupUnmemorized ==
    LET key == BoardStr(board)
    IN IF MemoryGet(memory, key) # 0
       THEN [nodes |-> nodes, memory |-> memory, root |-> MemoryGet(memory, key)]
       ELSE LET ns == Append(nodes, SarsaNode(LiveGame, RatInt(0), None, TRUE))
            IN [nodes |-> ns, memory |-> memory, root |-> Len(ns)]

\* SarsaMCTS.pre_step_setup_: the heap, memory and root it leaves.
SarsaPreStepSetup ==
    LET key == BoardStr(board)
    IN IF MemoryGet(memory, key) # 0
       THEN [nodes |-> nodes, memory |-> memory, root |-> MemoryGet(memory, key)]
       ELSE LET ns == Append(nodes, SarsaNode(LiveGame, RatInt(0), None, TRUE))
            IN [nodes |-> ns, memory |-> MemorySet(memory, key, Len(ns)),
                root |-> Len(ns)]

\* The edge case SarsaMCTS.step returns on: the real game is decided.
SarsaGameDecided(live) == is_terminal_state(live).is_terminal

\* SarsaMCTS.step (with selection_, simulation_, expansion_ and
\* backpropagation_)
SarsaStepCall ==
    /\ engine = "Sarsa"
    /\ n_steps' = n_steps + 1
    /\ UNCHANGED <<config_vars, running, board, path, n_moves>>
    /\ IF SarsaGameDecided(board)
       THEN /\ ret' = Returned("step", None)
            /\ UNCHANGED <<nodes, memory, root, episode, worst_return, best_return>>
       ELSE LET pre == SarsaPreStepSetup
            IN \E gen \in generate_episode_(
                              pre.nodes[pre.root].game_obj,
                              pre.nodes[pre.root].is_opponent_turn,
                              <<>>, pre.memory, board, mark, opponent_mark) :
                 /\ root' = pre.root
                 /\ episode' = gen.episode
                 /\ IF gen.raised # ""
                    THEN /\ ret' = Raised("step", gen.raised)
                         /\ nodes' = pre.nodes
                         /\ memory' = pre.memory
                         /\ UNCHANGED <<worst_return, best_return>>
                    ELSE LET exp == expand_tree_(pre.nodes, pre.memory,
                                                 gen.episode, 2, board)
                             bak == backup_td_errors_(
                                        exp.nodes, exp.memory, gen.episode,
                                        Len(gen.episode), RatInt(0), RatInt(0),
                                        best_return, worst_return, board)
                         IN /\ memory' = exp.memory
                            /\ IF exp.raised # ""
                               THEN /\ ret' = Raised("step", exp.raised)
                                    /\ nodes' = exp.nodes
                                    /\ UNCHANGED <<worst_return, best_return>>
                               ELSE /\ ret' = Returned("step", None)
                                    /\ nodes' = bak.nodes
                                    /\ worst_return' = bak.worst_return
                                    /\ best_return' = bak.best_return

\* A step() call of SarsaMCTS, of the MaxSteps the driver makes.
SarsaStep == n_steps < MaxSteps /\ SarsaStepCall

\* SarsaMCTS.make_move: the scan over self.root.children_states.values();
\* has_max = FALSE stands for max_value = -np.inf.
RECURSIVE SarsaBestChild(_, _, _, _, _, _)
SarsaBestChild(ns, parent, i, has_max, max_value, best_child) ==
    IF i > Len(ns[parent].children_states) THEN best_child
    ELSE LET child == ns[parent].children_states[i]
         IN IF ~has_max \/ RatGeq(ns[child].V, max_value)
            THEN SarsaBestChild(ns, parent, i + 1, TRUE, ns[child].V, child)
            ELSE SarsaBestChild(ns, parent, i + 1, has_max, max_value, best_child)

SarsaMakeMoveResult(ns, r) ==
    LET best_child == SarsaBestChild(ns, r, 1, FALSE, RatInt(0), 0)
    IN IF best_child = 0 THEN Raised("make_move", "AttributeError")
       ELSE Returned("make_move", ns[best_child].input_action)

\* SarsaMCTS.make_move
SarsaMakeMove ==
    /\ engine = "Sarsa"
    /\ ret' = SarsaMakeMoveResult(nodes, root)
    /\ UNCHANGED <<config_vars, running, board, agent_vars, n_steps, n_moves>>

-----------------------------------------------------------------------------
(* The driver (src/run.py, src/run_sarsa.py) and the initial states.       *)

\* No step() call is in progress.  Otherwise pc names the loop the call is
\* in, node is the argument of perform_lookahead, sim is the game object
\* of the playout (simulated_game_obj) or of the episode (s), and turn is
\* the local is_opponent_turn.
Idle == [pc |-> "idle", node |-> 0, sim |-> NoGame, turn |-> FALSE]

\* Boards the game object is constructed with
\* (TicTacToeBoard(configuration)): a board already won by X, and a board
\* with three open cells.
InitBoards ==
    { << 1,  1,  1,
         0,  0, -1,
        -1, -1, -1>>,
      <<-1, -1, -1,
         0,  0,  1,
         1,  0,  1>> }

\* (engine, mark, opponent_mark) as the drivers construct the agents:
\* run.py and tests.py pass the integers 1 and 0 to NaiveMCTS, run_sarsa.py
\* passes 'X' and 'O' to SarsaMCTS.
InitConfigs ==
    { <<"Naive", "1", "0">>, <<"Naive", "0", "1">>, <<"Sarsa", "X", "O">> }

\* The state after NaiveMCTS.__init__ / SarsaMCTS.__init__.
Init ==
    /\ \E c \in InitConfigs :
         /\ engine = c[1]
         /\ mark = c[2]
         /\ opponent_mark = c[3]
    /\ board \in InitBoards
    /\ nodes = IF engine = "Naive"
               THEN <<NaiveNode(ArrayState(get_init_game_state), None, FALSE)>>
               ELSE <<SarsaNode(ArrayState(get_init_game_state), V_init, None, FALSE)>>
    /\ memory = [k \in {} |-> 0]
    /\ root = 1
    /\ path = <<>>
    /\ episode = <<>>
    /\ worst_return = InitWorstReturn
    /\ best_return = InitBestReturn
    /\ ret = NoCall
    /\ n_steps = 0
    /\ n_moves = 0
    /\ running = Idle

\* The driver applies a real move: tictactoe_game.mark_move(player, row, col)
\* with a player whose mark is 'X' or 'O', while the game is not over.
RealMove ==
    /\ n_moves < MaxMoves
    /\ ~is_terminal_state(board).is_terminal
    /\ \E a \in Rows \X Cols, m \in {"X", "O"} :
         /\ is_move_valid_(board, a[1], a[2])
         /\ board' = mark_move(board, m, a[1], a[2])
    /\ n_moves' = n_moves + 1
    /\ ret' = NoCall
    /\ UNCHANGED <<config_vars, running, agent_vars, n_steps>>

Next ==
    \/ NaiveStep
    \/ NaiveMakeMove
    \/ SarsaStep
    \/ SarsaMakeMove
    \/ RealMove

Spec == Init /\ [][Next]_vars

-----------------------------------------------------------------------------
(* step() in the steps it takes: each pass of a loop and each call of a    *)
(* recursive function is an action of its own, so that a call that does    *)
(* not come to an end is a behaviour that stays away from Idle.            *)

\* step() is called: the edge case returns at once; otherwise
\* pre_step_setup_ runs and the call enters selection_.
BeginStep ==
    /\ running = Idle
    /\ n_steps < MaxSteps
    /\ n_steps' = n_steps + 1
    /\ UNCHANGED <<config_vars, board, worst_return, best_return, n_moves>>
    /\ IF is_terminal_state(board).is_terminal
       THEN /\ ret' = Returned("step", None)
            /\ UNCHANGED <<nodes, memory, root, path, episode, running>>
       ELSE /\ ret' = NoCall
            /\ IF engine = "Naive"
               THEN LET pre == NaivePreStepSetup
                    IN /\ nodes' = pre.nodes
                       /\ memory' = pre.memory
                       /\ root' = pre.root
                       /\ path' = <<>>
                       /\ running' = [Idle EXCEPT !.pc = "lookahead",
                                                  !.node = pre.root]
                       /\ UNCHANGED episode
               ELSE LET pre == SarsaPreStepSetup
                    IN /\ nodes' = pre.nodes
                       /\ memory' = pre.memory
                       /\ root' = pre.root
                       /\ episode' = <<>>
                       /\ running' =
                            [Idle EXCEPT
                               !.pc = "episode",
                               !.sim = pre.nodes[pre.root].game_obj,
                               !.turn = pre.nodes[pre.root].is_opponent_turn]
                       /\ UNCHANGED path

\* One call of NaiveMCTS.perform_lookahead(running.node).
LookaheadCall ==
    /\ running.pc = "lookahead"
    /\ path' = Append(path, running.node)
    /\ IF running.node = 0
       THEN /\ ret' = Raised("step", "AttributeError")
            /\ running' = Idle
       ELSE /\ UNCHANGED ret
            /\ IF is_leaf(nodes[running.node])
               THEN running' = [running EXCEPT !.pc = "selected"]
               ELSE running' = [running EXCEPT
                                  !.node = LookaheadScan(nodes, running.node, 1, 0, 0)]
    /\ UNCHANGED <<config_vars, board, nodes, memory, root, episode,
                   worst_return, best_return, n_steps, n_moves>>

\* NaiveMCTS.selection_ after perform_lookahead: the terminal leaf ends the
\* step; otherwise expansion_, determine_playout_node and the start of
\* perform_playout.
SelectionEnd ==
    /\ running.pc = "selected"
    /\ LET leaf_node == path[Len(path)]
       IN IF is_terminal_state(GameBoard(nodes[leaf_node].game_obj, board)).is_terminal
          THEN /\ ret' = Returned("step", None)
               /\ running' = Idle
               /\ UNCHANGED <<nodes, path>>
          ELSE \E order \in IterationOrders(Len(get_all_next_actions(board))) :
                 \E expanded \in {create_children_for_node(
                                      nodes, leaf_node, board, mark, order)} :
                    \E k \in 1 .. Len(expanded[leaf_node].children_states) :
                      LET playout_node == expanded[leaf_node].children_states[k]
                      IN /\ nodes' = expanded
                         /\ path' = Append(path, playout_node)
                         /\ running' =
                              [pc |-> "playout",
                               node |-> playout_node,
                               sim |-> OwnGame(GameBoard(
                                          expanded[playout_node].game_obj, board)),
                               turn |-> expanded[playout_node].is_opponent_turn]
                         /\ UNCHANGED ret
    /\ UNCHANGED <<config_vars, board, memory, root, episode,
                   worst_return, best_return, n_steps, n_moves>>

\* One pass of the while loop of NaiveMCTS.perform_playout.
PlayoutMove ==
    /\ running.pc = "playout"
    /\ ~is_terminal_state(running.sim.board).is_terminal
    /\ \E a \in select_action(running.sim.board) :
         running' = [running EXCEPT
                       !.sim = OwnGame(mark_move(
                                  running.sim.board,
                                  IF running.turn THEN opponent_mark ELSE mark,
                                  a[1], a[2])),
                       !.turn = ~running.turn]
    /\ UNCHANGED <<config_vars, board, agent_vars, ret, n_steps, n_moves>>

\* The end of perform_playout, and backpropagation_.
PlayoutEnd ==
    /\ running.pc = "playout"
    /\ is_terminal_state(running.sim.board).is_terminal
    /\ nodes' = backpropagate_outcome(
                    nodes, path, 1,
                    OutcomeOf(is_terminal_state(running.sim.board).winner,
                              mark, opponent_mark))
    /\ ret' = Returned("step", None)
    /\ running' = Idle
    /\ UNCHANGED <<config_vars, board, memory, root, path, episode,
                   worst_return, best_return, n_steps, n_moves>>

\* One pass of the while loop of SarsaMCTS.generate_episode_.
EpisodeMove ==
    /\ running.pc = "episode"
    /\ ~is_terminal_state(GameBoard(running.sim, board)).is_terminal
    /\ IF MemoryGet(memory, ObjectKey(running.sim)) # 0
       THEN /\ ret' = Raised("step", "AttributeError")
            /\ running' = Idle
            /\ UNCHANGED episode
       ELSE \E a \in select_action(GameBoard(running.sim, board)) :
              LET s == running.sim
                  sp == OwnGame(get_next_game_state(
                                   GameBoard(s, board), a,
                                   IF running.turn THEN mark ELSE opponent_mark))
                  r == get_reward(sp.board, mark)
                  ep1 == IF Len(episode) = 0
                         THEN <<Transition(NoGame, None, 0, s)>> ELSE episode
              IN /\ episode' = Append(ep1, Transition(s, a, r, sp))
                 /\ running' = [running EXCEPT !.sim = sp, !.turn = ~running.turn]
                 /\ UNCHANGED ret
    /\ UNCHANGED <<config_vars, board, nodes, memory, root, path,
                   worst_return, best_return, n_steps, n_moves>>

\* The end of generate_episode_, then expansion_ and backpropagation_.
EpisodeEnd ==
    /\ running.pc = "episode"
    /\ is_terminal_state(GameBoard(running.sim, board)).is_terminal
    /\ \E exp \in {expand_tree_(nodes, memory, episode, 2, board)} :
          /\ memory' = exp.memory
          /\ IF exp.raised # ""
             THEN /\ ret' = Raised("step", exp.raised)
                  /\ nodes' = exp.nodes
                  /\ UNCHANGED <<worst_return, best_return>>
             ELSE \E bak \in {backup_td_errors_(
                                  exp.nodes, exp.memory, episode, Len(episode),
                                  RatInt(0), RatInt(0), best_return,
                                  worst_return, board)} :
                     /\ ret' = Returned("step", None)
                     /\ nodes' = bak.nodes
                     /\ worst_return' = bak.worst_return
                     /\ best_return' = bak.best_return
    /\ running' = Idle
    /\ UNCHANGED <<config_vars, board, root, path, episode, n_steps, n_moves>>

\* The driver moves between the agent's calls.
RealMoveBetweenCalls == running = Idle /\ RealMove

\* What a step() call in progress does next.
StepRuns ==
    \/ LookaheadCall
    \/ SelectionEnd
    \/ PlayoutMove
    \/ PlayoutEnd
    \/ EpisodeMove
    \/ EpisodeEnd

NextRun ==
    \/ BeginStep
    \/ LookaheadCall
    \/ SelectionEnd
    \/ PlayoutMove
    \/ PlayoutEnd
    \/ EpisodeMove
    \/ EpisodeEnd
    \/ RealMoveBetweenCalls

\* A call in progress goes on running: the interpreter executes the next
\* statement of step() as long as there is one.
SpecRun == Init /\ [][NextRun]_vars /\ WF_vars(StepRuns)

\* A driver for longer searches of SarsaMCTS: run_sarsa.py calls step()
\* n_tree_iters times between the moves of the game.  The game starts at
\* the undecided board, and the opponent may move between the calls.
InitSearch ==
    /\ Init
    /\ engine = "Sarsa"
    /\ ~is_terminal_state(board).is_terminal

SearchStep == n_steps < MaxSearchSteps /\ SarsaStepCall

SearchMove == engine = "Sarsa" /\ RealMove

NextSearch ==
    \/ SearchStep
    \/ SearchMove

SpecSearch == InitSearch /\ [][NextSearch]_vars

\* A second driver, for the expansion routine on its own: after
\* construction on an undecided game, NaiveMCTS.expansion_(node) is called
\* on nodes of the tree, the real game staying where it is.  n_steps counts
\* the calls made.
InitExpansion ==
    /\ Init
    /\ engine = "Naive"
    /\ ~is_terminal_state(board).is_terminal

\* NaiveMCTS.expansion_(node): create_children_for_node, i.e.
\* node.add_children(*self.game_obj.get_next_game_states(self.mark)).
ExpansionCall ==
    /\ engine = "Naive"
    /\ n_steps < MaxExpansions
    /\ n_steps' = n_steps + 1
    /\ \E node \in 1 .. Len(nodes) :
         \E order \in IterationOrders(Len(nodes[node].children_states)
                                        + Len(get_all_next_actions(board))) :
            nodes' = create_children_for_node(nodes, node, board, mark, order)
    /\ ret' = Returned("expansion_", None)
    /\ UNCHANGED <<config_vars, running, board, memory, root, path, episode,
                   worst_return, best_return, n_moves>>

NextExpansion == ExpansionCall

SpecExpansion == InitExpansion /\ [][NextExpansion]_vars

-----------------------------------------------------------------------------
(* Properties.                                                             *)

\* Under Spec a step() call is the only operation that changes n_steps.
StepTaken == n_steps' = n_steps + 1

\* The canonical key the constructed engine looks the real state up by.
CurrentKey == IF engine = "Naive" THEN array2string(board) ELSE BoardStr(board)

PreStepSetup == IF engine = "Naive" THEN NaivePreStepSetup ELSE SarsaPreStepSetup

MakeMoveResult ==
    IF engine = "Naive" THEN NaiveMakeMoveResult(nodes, root)
    ELSE SarsaMakeMoveResult(nodes, root)

\* C1: in both engines a step() called while the real game is terminal
\* returns without raising and leaves memory, root, path, episode, every
\* node (children and statistics) and the return bounds as they were.
C1_TerminalStepIsNoOp ==
    [][(StepTaken /\ is_terminal_state(board).is_terminal)
          => (ret' = Returned("step", None) /\ UNCHANGED agent_vars)]_vars

\* C1 witness: a step() has returned on a decided real game, after an
\* earlier step() built a tree and a real move decided the game.
C1_Witness ==
    /\ is_terminal_state(board).is_terminal
    /\ ret = Returned("step", None)
    /\ n_steps >= 2
    /\ n_moves >= 1
    /\ Len(nodes) > 2

\* C2: make_move() changes neither memory, root, path, episode, the nodes,
\* the return bounds nor the real game, and a make_move() that follows a
\* make_move() directly has the same outcome.
C2_MakeMoveReadOnly ==
    [][(ret'.op = "make_move")
          => /\ UNCHANGED <<agent_vars, board>>
             /\ ret' = MakeMoveResult
             /\ (ret.op = "make_move" => ret' = ret)]_vars

\* C2 witness: make_move() has returned an action at a root with several
\* children.
C2_Witness ==
    /\ ret.op = "make_move"
    /\ ret.kind = "return"
    /\ ret.action # None
    /\ Len(nodes[root].children_states) >= 2

\* C3: make_move() at a root without children raises, returns no action,
\* and leaves tree and memory as they were.
C3_NoChildrenRaises ==
    [][(ret'.op = "make_move" /\ is_leaf(nodes[root]))
          => /\ ret'.kind = "raise"
             /\ ret'.action = None
             /\ UNCHANGED <<agent_vars, board>>]_vars

\* C3 witness: make_move() was called after construction, before any
\* step(), and raised.
C3_Witness ==
    /\ n_steps = 0
    /\ is_leaf(nodes[root])
    /\ ret = Raised("make_move", "AttributeError")

\* C4: memory is empty at construction, and no operation removes a key or
\* maps a key to another node object; node objects are never dropped.
C4_MemoryOnlyGrows ==
    /\ DOMAIN memory = {}
    /\ [][/\ \A k \in DOMAIN memory :
               k \in DOMAIN memory' /\ memory'[k] = memory[k]
          /\ Len(nodes') >= Len(nodes)]_vars

\* C4 witness: memory holds several keys after steps and a real move.
C4_Witness ==
    /\ Cardinality(DOMAIN memory) >= 2
    /\ n_moves >= 1
    /\ n_steps >= 2

\* C5: a step() on an undecided real game takes as root the node memory
\* holds under the real state's key, the lookup changing neither nodes nor
\* memory; without such a node it constructs a node with no children, no
\* origin action and turn_owner = opponent, stores it under that key, and
\* takes it as root.
C5_RootLookup ==
    [][(StepTaken /\ ~is_terminal_state(board).is_terminal)
          => LET pre == PreStepSetup
             IN /\ root' = pre.root
                /\ memory'[CurrentKey] = root'
                /\ IF CurrentKey \in DOMAIN memory
                   THEN /\ pre.root = memory[CurrentKey]
                        /\ pre.nodes = nodes
                        /\ pre.memory = memory
                   ELSE /\ pre.root = Len(nodes) + 1
                        /\ Len(pre.nodes) = Len(nodes) + 1
                        /\ is_leaf(pre.nodes[pre.root])
                        /\ pre.nodes[pre.root].input_action = None
                        /\ pre.nodes[pre.root].is_opponent_turn
                        /\ DOMAIN pre.memory = DOMAIN memory \cup {CurrentKey}
                        /\ nodes'[root'].input_action = None
                        /\ nodes'[root'].is_opponent_turn]_vars

\* C5 witness: both cases have happened: a step() found the real state in
\* memory (a node attached earlier with an origin action), after an earlier
\* step() had constructed a root.
C5_Witness ==
    /\ ret.op = "step"
    /\ nodes[root].input_action # None
    /\ CurrentKey \in DOMAIN memory
    /\ memory[CurrentKey] = root
    /\ \E n \in 1 .. Len(nodes) :
         nodes[n].game_obj = LiveGame /\ nodes[n].is_opponent_turn

\* The node references held as children by some node.
Attached(ns) ==
    UNION {{ns[p].children_states[i] : i \in 1 .. Len(ns[p].children_states)} :
              p \in 1 .. Len(ns)}

\* The nodes attached as children whose own game state is the board b.
AttachedWithState(ns, b) ==
    {n \in Attached(ns) : ns[n].game_obj # LiveGame /\ ns[n].game_obj.board = b}

\* C6: in both engines, when the real game is at a state that earlier
\* step() calls attached to the tree as a descendant, the next step() takes
\* such an attached node, as it stood, as root instead of a fresh node.
C6_TreeReuse ==
    [][(StepTaken /\ ~is_terminal_state(board).is_terminal
          /\ AttachedWithState(nodes, board) # {})
          => root' \in AttachedWithState(nodes, board)]_vars

\* C7: for every node and every child of it, the child's is_opponent_turn
\* is the negation of the parent's.
C7_TurnAlternation ==
    \A p \in 1 .. Len(nodes) :
       \A i \in 1 .. Len(nodes[p].children_states) :
          nodes[nodes[p].children_states[i]].is_opponent_turn
             = ~nodes[p].is_opponent_turn

\* C7 witness: a chain root, child, grandchild exists.
C7_Witness ==
    \E p \in 1 .. Len(nodes) :
       \E i \in 1 .. Len(nodes[p].children_states) :
          /\ nodes[p].is_opponent_turn
          /\ ~is_leaf(nodes[nodes[p].children_states[i]])

\* C8: every NaiveNode has n_visited >= 1 and 0 <= n_won <= n_visited
\* (n_won being held in half wins).
C8_NaiveValueBounded ==
    engine = "Naive" =>
       \A n \in 1 .. Len(nodes) :
          /\ nodes[n].n_visited >= 1
          /\ 0 <= nodes[n].n_won
          /\ nodes[n].n_won <= FullWin * nodes[n].n_visited

\* C8 witness: a node has been credited full wins in two rollouts.
C8_Witness ==
    /\ engine = "Naive"
    /\ \E n \in 1 .. Len(nodes) :
         nodes[n].n_visited >= 3 /\ nodes[n].n_won >= 2 * FullWin

\* The visit counter node n had before the step: a node constructed during
\* the step starts from the constructor's counter.
VisitsBefore(n) ==
    IF n <= Len(nodes) THEN nodes[n].n_visited
    ELSE IF engine = "Naive" THEN NaiveNode(NoGame, None, FALSE).n_visited
    ELSE SarsaNode(NoGame, V_init, None, FALSE).n_visited

\* A step() that performs a rollout: the real game is undecided, and for
\* NaiveMCTS the selected leaf is not terminal (a playout node was added to
\* the path); for SarsaMCTS the episode was generated and backed up.
RolloutStep ==
    /\ StepTaken
    /\ ~is_terminal_state(board).is_terminal
    /\ ret' = Returned("step", None)
    /\ engine = "Naive" =>
          LET pre == NaivePreStepSetup
              lookahead == perform_lookahead(pre.nodes, pre.root)
          IN Len(path') = Len(lookahead) + 1

\* The nodes of the recorded path (Naive) or the memorized nodes of the
\* recorded episode (Sarsa) after the step.
OnRecordedPath ==
    IF engine = "Naive" THEN {path'[i] : i \in 1 .. Len(path')}
    ELSE {MemoryGet(memory', BoardStr(GameBoard(episode'[i].sp, board))) :
             i \in 1 .. Len(episode')} \ {0}

ChildActions(ns, p) ==
    {ns[ns[p].children_states[i]].input_action :
        i \in 1 .. Len(ns[p].children_states)}

\* C10: expansion is idempotent: a pair whose action already exists as a
\* child is skipped, so a node never holds two children for one action
\* (its children are as many as the actions they stand for), however often
\* the expansion routine is called on it with the same pairs.
C10_ExpansionIdempotent ==
    \A p \in 1 .. Len(nodes) :
       Len(nodes[p].children_states) = Cardinality(ChildActions(nodes, p))

\* The statistic make_move() ranks node n by: n_won / n_visited (Naive),
\* the raw V (Sarsa).
Statistic(n) == IF engine = "Naive" THEN get_value(nodes[n]) ELSE nodes[n].V

\* The positions in the root's children, in iteration order, whose
\* statistic no sibling exceeds.
MaximalChildren ==
    LET cs == nodes[root].children_states
    IN {i \in 1 .. Len(cs) :
          \A j \in 1 .. Len(cs) : RatGeq(Statistic(cs[i]), Statistic(cs[j]))}

\* C11: make_move() returns the origin action of a child of the root whose
\* statistic is maximal among the root's children, and among several
\* maximal children that of the one enumerated last.
C11_GreedyLastMaximal ==
    (ret.op = "make_move" /\ ret.kind = "return")
       => LET cs == nodes[root].children_states
          IN /\ MaximalChildren # {}
             /\ \E i \in MaximalChildren :
                  /\ \A j \in MaximalChildren : j <= i
                  /\ ret.action = nodes[cs[i]].input_action

\* C11 witness: make_move() has returned at a root, visited by two
\* rollouts, where several children tie for the maximum.
C11_Witness ==
    /\ ret.op = "make_move"
    /\ ret.kind = "return"
    /\ n_steps >= 2
    /\ Cardinality(MaximalChildren) >= 2

\* The actions under which node r holds a child that memory maps some key
\* to.
MemorizedChildActions(ns, mem, r) ==
    {ns[ns[r].children_states[i]].input_action :
        i \in {j \in 1 .. Len(ns[r].children_states) :
                 \E k \in DOMAIN mem : mem[k] = ns[r].children_states[j]}}

\* The legal actions of the real state under which the root of the coming
\* step() has no memorized child.
UntriedRootActions ==
    LET pre == SarsaPreStepSetup
        actions == get_all_next_actions(board)
    IN {actions[i] : i \in 1 .. Len(actions)}
          \ MemorizedChildActions(pre.nodes, pre.memory, pre.root)

\* C12: in SarsaMCTS, over repeated step() calls from an unchanged real
\* state, while some action of the root has no memorized child the first
\* action of the episode is an action without a memorized child.
C12_UntriedActionsFirst ==
    [][(/\ engine = "Sarsa"
        /\ StepTaken
        /\ n_moves = 0
        /\ ~is_terminal_state(board).is_terminal
        /\ ret' = Returned("step", None)
        /\ UntriedRootActions # {})
          => episode'[2].a \in UntriedRootActions]_vars

\* The values the nodes updated by the step's backup were left with.
UpdatedValues == {nodes'[n].V : n \in OnRecordedPath}

\* worst_return < best_return as numbers, worst_return being val - eps * 1e-9.
WorstBelowBest ==
    /\ RatLeq(worst_return.val, best_return)
    /\ (worst_return.eps = 1 \/ worst_return.val # best_return)

\* C13: in SarsaMCTS a backup leaves best_return at the greatest of its old
\* value and the values the updated nodes were left with, and worst_return
\* at the least of them minus the small epsilon; in every reachable state
\* worst_return # best_return, and worst_return < best_return once a node
\* has been updated.
C13_ReturnBounds ==
    /\ [](engine = "Sarsa" =>
            /\ ~(worst_return.eps = 0 /\ worst_return.val = best_return)
            /\ ((\E n \in 1 .. Len(nodes) :
                    nodes[n].n_visited
                       > SarsaNode(NoGame, V_init, None, FALSE).n_visited)
                  => WorstBelowBest))
    /\ [][(engine = "Sarsa" /\ RolloutStep)
            => /\ UpdatedValues # {}
               /\ best_return' \in UpdatedValues \cup {best_return}
               /\ \A v \in UpdatedValues \cup {best_return} :
                    RatGeq(best_return', v)
               /\ worst_return'.val \in UpdatedValues \cup {worst_return.val}
               /\ \A v \in UpdatedValues \cup {worst_return.val} :
                    RatLeq(worst_return'.val, v)
               /\ worst_return'.eps = 1]_vars

\* C13 witness: two backups have happened, the second having raised
\* best_return above the least value seen.
C13_Witness ==
    /\ engine = "Sarsa"
    /\ n_steps >= 2
    /\ ret = Returned("step", None)
    /\ worst_return.eps = 1
    /\ worst_return.val # best_return
    /\ \E n \in 1 .. Len(nodes) :
         nodes[n].n_visited >= 3 /\ nodes[n].V = best_return

\* The reward the sparse-reward rule gives the player marking m on board b.
SparseReward(b, m) ==
    LET t == is_terminal_state(b)
    IN IF ~t.is_terminal THEN 0
       ELSE IF t.winner = NO_MARK_INDICATOR THEN 0
       ELSE IF indicator_to_mark(t.winner) = m THEN 1
       ELSE -1

\* C14: get_reward(board, player) is 0 on a board that is not terminal, +1
\* on a terminal board won by the player's mark, -1 on one won by the other
\* mark and 0 on a draw; here for every reward an episode of SarsaMCTS
\* recorded for the successor state it recorded with it.
C14_SparseReward ==
    engine = "Sarsa" =>
       \A i \in 2 .. Len(episode) :
          episode[i].r = SparseReward(episode[i].sp.board, mark)

\* C15: every step() call runs to completion: a call in progress (in the
\* selection descent, in the rollout, in episode generation) is followed by
\* a state in which it has returned, and no step() call ends by raising.
C15_StepRunsToCompletion ==
    /\ [](ret.op = "step" => ret.kind = "return")
    /\ (running # Idle) ~> (running = Idle /\ ret = Returned("step", None))

\* C15 witness: a second step() has returned after a descent through the
\* tree and a rollout (Naive), or after an episode of three moves (Sarsa).
C15_Witness ==
    /\ running = Idle
    /\ ret = Returned("step", None)
    /\ n_steps >= 2
    /\ \/ engine = "Naive" /\ Len(path) >= 3
       \/ engine = "Sarsa" /\ Len(episode) >= 4


\* The wins node n had before the step: a node constructed during the step
\* starts from the constructor's count.
WinsBefore(n) ==
    IF n <= Len(nodes) THEN nodes[n].n_won
    ELSE NaiveNode(NoGame, None, FALSE).n_won

\* The credit (in half wins) a node of the given owner is due for outcome.
Credit(outcome, is_opponent) ==
    IF \/ outcome = WIN /\ ~is_opponent
       \/ outcome = LOSS /\ is_opponent
    THEN FullWin
    ELSE IF outcome = DRAW THEN HalfWin
    ELSE 0

\* C16: a NaiveMCTS step() that performs a rollout has one outcome for
\* which every node on the search path has one more visit and its wins
\* greater by 1 if the outcome is WIN and the node is the agent's or the
\* outcome is LOSS and the node is the opponent's, by 0.5 on DRAW and by 0
\* otherwise; the nodes off the path keep their wins.
C16_BackpropagationCredit ==
    [][(engine = "Naive" /\ RolloutStep)
          => \E outcome \in {WIN, LOSS, DRAW} :
                \A n \in 1 .. Len(nodes') :
                   IF n \in OnRecordedPath
                   THEN /\ nodes'[n].n_visited = VisitsBefore(n) + 1
                        /\ nodes'[n].n_won
                              = WinsBefore(n)
                                  + Credit(outcome, nodes'[n].is_opponent_turn)
                   ELSE nodes'[n].n_won = WinsBefore(n)]_vars

\* C16 witness: a rollout with a decisive outcome went down a path of three
\* nodes: the playout node, new in this step, was credited a full win and
\* its parent, visited for the first time, was credited nothing.
C16_Witness ==
    /\ engine = "Naive"
    /\ ret = Returned("step", None)
    /\ Len(path) >= 3
    /\ nodes[path[Len(path)]].n_visited = 2
    /\ nodes[path[Len(path)]].n_won = FullWin
    /\ nodes[path[Len(path) - 1]].n_visited = 2
    /\ nodes[path[Len(path) - 1]].n_won = 0

\* The leaf selection ended at in a rollout step of NaiveMCTS: the node
\* before the playout node on the path.
SelectedLeaf == path'[Len(path') - 1]

\* The leaf's own state, and the mark of the player to move there: the
\* agent moves from a node the opponent owns.
LeafState == GameBoard(nodes'[SelectedLeaf].game_obj, board)

LeafMover == IF nodes'[SelectedLeaf].is_opponent_turn THEN mark ELSE opponent_mark

\* C17: when selection of NaiveMCTS ends at a non-terminal leaf, at any
\* depth, the children attached to the leaf are exactly one per legal
\* action of the leaf's own state, and each child's state is the leaf's
\* state with that action applied with the mark of the player to move at
\* the leaf.
C17_ExpansionFromLeaf ==
    [][(engine = "Naive" /\ RolloutStep)
          => LET kids == nodes'[SelectedLeaf].children_states
                 acts == get_all_next_actions(LeafState)
             IN /\ Len(kids) = Len(acts)
                /\ \A i \in 1 .. Len(acts) :
                      \E j \in 1 .. Len(kids) :
                         /\ nodes'[kids[j]].input_action = acts[i]
                         /\ GameBoard(nodes'[kids[j]].game_obj, board)
                               = get_next_game_state(LeafState, acts[i],
                                                     LeafMover)]_vars

\* The state node n of the tree stands for.
NodeState(n) == GameBoard(nodes[n].game_obj, board)

\* C18: a NaiveMCTS step() on an undecided real game whose selection ends
\* at a leaf of the tree with a terminal state returns with no node added,
\* no node given children and no node's visits or wins changed.
C18_TerminalLeafShortCircuit ==
    [][(/\ engine = "Naive"
        /\ StepTaken
        /\ ~is_terminal_state(board).is_terminal
        /\ LET lookahead == perform_lookahead(nodes, MemoryGet(memory, CurrentKey))
               leaf_node == lookahead[Len(lookahead)]
           IN /\ MemoryGet(memory, CurrentKey) # 0
              /\ leaf_node # 0
              /\ is_terminal_state(NodeState(leaf_node)).is_terminal)
          => /\ ret' = Returned("step", None)
             /\ Len(nodes') = Len(nodes)
             /\ \A n \in 1 .. Len(nodes) :
                  /\ nodes'[n].children_states = nodes[n].children_states
                  /\ nodes'[n].n_visited = nodes[n].n_visited
                  /\ nodes'[n].n_won = nodes[n].n_won]_vars

\* C18 witness: two step() calls on one undecided board, the first a
\* rollout from the fresh root (the root's only visit), the second ended
\* at a child of the root whose state is terminal.
C18_Witness ==
    /\ engine = "Naive"
    /\ ret = Returned("step", None)
    /\ n_steps = 2
    /\ n_moves = 0
    /\ ~is_terminal_state(board).is_terminal
    /\ nodes[root].n_visited = 2
    /\ Len(path) = 2
    /\ path[1] = root
    /\ is_leaf(nodes[path[2]])
    /\ is_terminal_state(NodeState(path[2])).is_terminal

\* The children node p holds after the step.
ChildrenAfter(p) ==
    {nodes'[p].children_states[i] : i \in 1 .. Len(nodes'[p].children_states)}

\* Node n held children before the step; a node constructed during the step
\* did not.
HadChildren(n) == n <= Len(nodes) /\ ~is_leaf(nodes[n])

\* C19: the path a NaiveMCTS step() on an undecided game leaves starts at
\* the root and each next element is a child of the one before, so nothing
\* of an earlier path is left in it; after a rollout it runs through the
\* nodes selection descended through (each had children) to the selected
\* leaf (which had none) and ends with one child attached to the leaf in
\* this step, the only child of the leaf that is credited; on a fresh root
\* it is [root, child].
C19_PathShape ==
    [][(engine = "Naive" /\ StepTaken /\ ~is_terminal_state(board).is_terminal)
          => /\ Len(path') >= 1
             /\ path'[1] = root'
             /\ \A i \in 1 .. Len(path') - 1 :
                  path'[i + 1] \in ChildrenAfter(path'[i])
             /\ RolloutStep
                  => LET last == Len(path')
                     IN /\ last >= 2
                        /\ \A i \in 1 .. last - 2 : HadChildren(path'[i])
                        /\ ~HadChildren(path'[last - 1])
                        /\ path'[last] > Len(nodes)
                        /\ \A c \in ChildrenAfter(path'[last - 1]) :
                             /\ c > Len(nodes)
                             /\ nodes'[c].n_visited
                                   = VisitsBefore(c)
                                       + (IF c = path'[last] THEN 1 ELSE 0)
                        /\ root' > Len(nodes) => last = 2]_vars

\* C19 witness: a rollout step has left a path of three nodes, root, a
\* child and a grandchild credited for the first time.
C19_Witness ==
    /\ engine = "Naive"
    /\ ret = Returned("step", None)
    /\ Len(path) = 3
    /\ path[1] = root
    /\ ~is_leaf(nodes[path[2]])
    /\ is_leaf(nodes[path[3]])
    /\ nodes[path[3]].n_visited = 2

\* The legal actions of board b.
LegalActions(b) ==
    {get_all_next_actions(b)[k] : k \in 1 .. Len(get_all_next_actions(b))}

\* C20: in both engines every node holds at most one child per action, and
\* the action every child came from is a legal action of the state of the
\* node that holds it.
C20_ChildrenPerLegalAction ==
    \A p \in 1 .. Len(nodes) :
       LET cs == nodes[p].children_states
       IN /\ \A i, j \in 1 .. Len(cs) :
                nodes[cs[i]].input_action = nodes[cs[j]].input_action => i = j
          /\ \A i \in 1 .. Len(cs) :
                nodes[cs[i]].input_action \in LegalActions(NodeState(p))

\* The test of generate_episode_ that sends an action to the tree policy:
\* self.memory.get(s, None) != None, with the game object s as the key.
UsesTreePolicy(mem, s) == MemoryGet(mem, ObjectKey(s)) # 0

\* The state of game object s is memorized: its canonical key is in mem.
Memorized(mem, s) == MemoryGet(mem, BoardStr(GameBoard(s, board))) # 0

\* C21: in the episode a SarsaMCTS step() generates, an action is chosen by
\* the tree policy exactly when the state it is taken at is memorized, by
\* the playout policy otherwise; the first action, taken at the memorized
\* root, is chosen by the tree policy.
C21_TreePolicyWhenMemorized ==
    [][(engine = "Sarsa" /\ StepTaken /\ ~is_terminal_state(board).is_terminal)
          => /\ Len(episode') >= 2
             /\ UsesTreePolicy(PreStepSetup.memory, episode'[2].s)
             /\ \A i \in 2 .. Len(episode') :
                  UsesTreePolicy(PreStepSetup.memory, episode'[i].s)
                     <=> Memorized(PreStepSetup.memory, episode'[i].s)]_vars

\* The memory keys and the node objects a step() adds after
\* pre_step_setup_, that is besides the root's key and a fresh root.
KeysAdded == DOMAIN memory' \ DOMAIN PreStepSetup.memory

NodesConstructed == Len(nodes') - Len(PreStepSetup.nodes)

\* The transitions of the episode after the throw-away one whose successor
\* state is not memorized when expansion begins.
UnmemorizedSuccessors ==
    {i \in 2 .. Len(episode') : ~Memorized(PreStepSetup.memory, episode'[i].sp)}

\* C22: a SarsaMCTS step() on an undecided game adds at most one memory key
\* besides the root's and constructs at most one node besides a fresh
\* root; when the episode has a successor that is not memorized, exactly
\* one key is added, that of the first such successor.
C22_OneNodePerEpisode ==
    [][(engine = "Sarsa" /\ StepTaken /\ ~is_terminal_state(board).is_terminal)
          => /\ Cardinality(KeysAdded) <= 1
             /\ NodesConstructed <= 1
             /\ UnmemorizedSuccessors # {}
                  => \E i \in UnmemorizedSuccessors :
                        /\ \A j \in UnmemorizedSuccessors : i <= j
                        /\ KeysAdded
                             = {BoardStr(GameBoard(episode'[i].sp, board))}]_vars

\* The canonical key SarsaMCTS stores a node's state under: str() of the
\* game object the node holds.
NodeKey(n) == BoardStr(NodeState(n))

\* C23: in SarsaMCTS, for every memorized node p and every child c of p,
\* if the key of c's state is in memory then memory maps it to c itself:
\* no state has one node in memory and another attached as a child.
C23_MemoryIndexesTree ==
    engine = "Sarsa"
        => \A k \in DOMAIN memory :
               \A i \in 1 .. Len(nodes[memory[k]].children_states) :
                   LET c == nodes[memory[k]].children_states[i]
                   IN NodeKey(c) \in DOMAIN memory => memory[NodeKey(c)] = c

\* The value a node held before the step() being taken: a node constructed
\* by the step starts at V_init.
ValueBefore(n) == IF n <= Len(nodes) THEN nodes[n].V ELSE V_init

\* The node memory holds for the successor of transition i of the episode
\* just generated (0 when it holds none).
SuccessorNode(i) ==
    MemoryGet(memory', BoardStr(GameBoard(episode'[i].sp, board)))

\* v_current at transition i: the memorized successor's value before its
\* update, or the playout value.
VCurrent(i) ==
    IF SuccessorNode(i) # 0 THEN ValueBefore(SuccessorNode(i)) ELSE V_playout

\* single_step_td at transition i: v_next is 0 at the last transition and
\* the pre-update v_current of the transition after it elsewhere.
SingleStepTd(i) ==
    LET v_next == IF i = Len(episode') THEN RatInt(0) ELSE VCurrent(i + 1)
    IN RatSub(RatAdd(RatInt(episode'[i].r), RatMul(gamma, v_next)), VCurrent(i))

\* td_cum after transition i has been processed, the episode being
\* processed from its last transition to its first.
RECURSIVE TdCum(_)
TdCum(i) ==
    IF i > Len(episode') THEN RatInt(0)
    ELSE RatAdd(RatMul(RatMul(trace_decay, gamma), TdCum(i + 1)), SingleStepTd(i))

ScoredChildren(p) ==
    {nodes[p].children_states[i] : i \in 1 .. Len(nodes[p].children_states)}

WithinReturns(v) == RatLeq(worst_return.val, v) /\ RatLeq(v, best_return)

Examined ==
    {i \in 2 .. Len(episode') :
        \A j \in 2 .. i - 1 : Memorized(PreStepSetup.memory, episode'[j].sp)}

\* C27: the assertion of SarsaMCTS.expand_tree_ never fails: the
\* predecessor state of every transition it examines is memorized, and no
\* step() ends by raising AssertionError.
C27_ParentMemorized ==
    [][(engine = "Sarsa" /\ StepTaken /\ ~is_terminal_state(board).is_terminal)
          => /\ \A i \in Examined : Memorized(PreStepSetup.memory, episode'[i].s)
             /\ ret' # Raised("step", "AssertionError")]_vars

\* C27 witness: an expansion has examined three transitions, the first two
\* with memorized successors, and memorized the successor of the third.
C27_Witness ==
    /\ engine = "Sarsa"
    /\ n_moves = 0
    /\ ret = Returned("step", None)
    /\ Len(episode) >= 4
    /\ \A i \in 2 .. 4 : BoardStr(episode[i].sp.board) \in DOMAIN memory
    /\ nodes[memory[BoardStr(episode[4].sp.board)]].n_visited = 2
    /\ memory[BoardStr(episode[4].sp.board)] = Len(nodes)

\* The canonical key the constructed engine stores the board b under.
KeyOf(b) == IF engine = "Naive" THEN array2string(b) ELSE BoardStr(b)

\* C28: in every state reached by step() calls and real moves on the live
\* game object, every memory entry (key, node) has the canonical key of the
\* state the node holds equal to key.
C28_KeysMatchHeldStates ==
    \A k \in DOMAIN memory : KeyOf(NodeState(memory[k])) = k

\* The player whose mark produced the rollout child: create_children_for_node
\* marks every next state with self.mark.
EdgeMover == mark

\* The player perform_playout lets move next.
RolloutMover == IF running.turn THEN opponent_mark ELSE mark

\* The first pass of the rollout's loop: the simulated game still is the
\* rollout child's state.
FirstRolloutMove ==
    /\ engine = "Naive"
    /\ running.pc = "playout"
    /\ running'.pc = "playout"
    /\ running.sim.board = NodeState(running.node)
    /\ running'.sim # running.sim

\* C29: movers alternate along every simulated line of NaiveMCTS: the first
\* rollout move is made by the player who did not make the move producing
\* the rollout child, so that no player places two consecutive marks.
C29_MoversAlternate ==
    [][FirstRolloutMove => RolloutMover # EdgeMover]_vars

\* The visits the children cs[i .. Len(cs)] have received since their
\* construction: the sum of n_visited - 1 over them.
RECURSIVE ChildVisitsFrom(_, _)
ChildVisitsFrom(cs, i) ==
    IF i > Len(cs) THEN 0
    ELSE (nodes[cs[i]].n_visited - NaiveNode(NoGame, None, FALSE).n_visited)
            + ChildVisitsFrom(cs, i + 1)

\* C30: in NaiveMCTS the visits the children of a node have received
\* since their construction sum to at most those the node has received,
\* and no child has a larger visit count than its parent.
C30_VisitCountsConsistent ==
    engine = "Naive"
        => \A n \in 1 .. Len(nodes) :
               /\ ChildVisitsFrom(nodes[n].children_states, 1)
                     <= nodes[n].n_visited - NaiveNode(NoGame, None, FALSE).n_visited
               /\ \A i \in 1 .. Len(nodes[n].children_states) :
                     nodes[nodes[n].children_states[i]].n_visited <= nodes[n].n_visited

\* C30 witness: two rollouts through one node have visited two of its
\* children, whose visits sum to the node's.
C30_Witness ==
    /\ engine = "Naive"
    /\ \E n \in 1 .. Len(nodes) :
         /\ nodes[n].n_visited >= 3
         /\ ChildVisitsFrom(nodes[n].children_states, 1) = nodes[n].n_visited - 1
         /\ \E i, j \in 1 .. Len(nodes[n].children_states) :
              /\ i # j
              /\ nodes[nodes[n].children_states[i]].n_visited >= 2
              /\ nodes[nodes[n].children_states[j]].n_visited >= 2
=============================================================================
